---- MODULE Spec2Model ----
(***************************************************************************)
(* VideoHub (video-publish-party): the Express handlers of api/index.js,   *)
(* server/index.js and the Vercel template, over the four MongoDB          *)
(* collections users, accounts, userRoles and videos.                      *)
(*                                                                         *)
(* The three back ends are alternative deployments, each with a database   *)
(* of its own; `variant` says which one a behaviour runs.  A collection is *)
(* a sequence in insertion order; findOne and deleteOne take the first     *)
(* matching document.  Identifiers keep their BSON type: a query for a     *)
(* string never matches an ObjectId and the other way round.               *)
(***************************************************************************)
EXTENDS Integers, Sequences, FiniteSets

\* ---------------------------------------------------------------- bounds
MaxUsers == 2
MaxAccounts == 1
MaxVideos == 1
\* the owner and editor assignments
MaxRoles == 2
\* the user documents one behaviour may insert, deleted ones included
MaxIds == 2
\* owner and editor assignments where an account's editors are managed (SpecEditors):
\* the owner's, one made by create-editor, one made by add-editor
MaxEditorRoles == 3

\* ------------------------------------------------------------ identifiers
\* An identifier is a triple <<type, collection, n>>: ObjectIds are unique, so the
\* n-th document of one collection never shares its _id with one of another.
Null == <<"null", "", 0>>
Oid(c, n) == <<"oid", c, n>>     \* the ObjectId of the n-th document inserted in c
Str(c, n) == <<"str", c, n>>     \* its 24 hex digit string
Gid(g) == <<"gid", "", g>>       \* a Google subject id (a string of decimal digits)
BadId == <<"bad", "", 0>>        \* any other string

ToString(id) == IF id[1] = "oid" THEN Str(id[2], id[3]) ELSE id

ObjectIdIsValid(id) == id[1] \in {"oid", "str"}

\* new ObjectId(id); the constructor throws where ObjectIdIsValid is false
NewObjectId(id) == IF id[1] = "str" THEN Oid(id[2], id[3]) ELSE id

\* ObjectId.prototype.equals(other): an ObjectId or its hex string
OidEquals(a, b) ==
    a[1] = "oid" /\ b[1] \in {"oid", "str"} /\ a[2] = b[2] /\ a[3] = b[3]

\* ------------------------------------------------------------------ inputs
Variants == {"api", "server", "template"}
GoogleSubs == {1, 2}
Emails == {"a@x", "b@x"}
\* the addresses a request body may carry: one of them is not in lower case
EmailInputs == Emails \cup {"B@x"}
Passwords == {"pw", "other"}
\* the password of a sign-in request: a body without one reads as the empty string
PasswordInputs == Passwords \cup {""}
\* the email of each Google identity (the payload of its ID token)
GoogleEmail(g) == IF g = 1 THEN "a@x" ELSE "b@x"
StatusInputs == {"approved", "rejected", "archived"}
NoteInputs == {"note"}

\* ------------------------------------------------------------------- state
VARIABLES variant, users, accounts, userRoles, videos, tokens, nextId, last, inflight

vars == <<variant, users, accounts, userRoles, videos, tokens, nextId, last, inflight>>

NoToken == [userId |-> Null, userType |-> "none", email |-> "none", role |-> "none"]

\* Google sign-in requests that run concurrently: inflight[s] is the request in slot s,
\* its position in the handler (phase), its Google identity, and the user document the
\* handler holds in memory (user: its _id, role: its role)
Slots == {1, 2}
NoRequest == [phase |-> "none", g |-> 0, user |-> <<"null", "", 0>>, role |-> "none"]

\* the request handled last and its response
Response(op, tok, code) ==
    [op |-> op, tok |-> tok, code |-> code, target |-> Null, account |-> Null,
     status |-> "none", upload |-> FALSE, threw |-> FALSE, list |-> {},
     error |-> "none", expired |-> FALSE, refreshed |-> FALSE, requested |-> {}]

Init ==
    /\ variant \in Variants
    /\ users = <<>>
    /\ accounts = <<>>
    /\ userRoles = <<>>
    /\ videos = <<>>
    /\ tokens = {}
    /\ nextId = 1
    /\ last = Response("none", NoToken, 0)
    /\ inflight = [s \in Slots |-> NoRequest]

\* Requests are handled one after another: a handler runs when no response is
\* pending, and Deliver is its response leaving the server.
Idle == last.op = "none"

Deliver ==
    /\ ~Idle
    /\ last' = Response("none", NoToken, 0)
    /\ UNCHANGED <<variant, inflight, users, accounts, userRoles, videos, tokens, nextId>>

\* ------------------------------------------------------ collection helpers
Range(s) == {s[i] : i \in DOMAIN s}

\* the positions of the documents a query matches; `matching` is the set of the
\* documents of the collection that satisfy the filter
Indices(s, matching) == {i \in DOMAIN s : s[i] \in matching}

\* findOne: the index of the first document that matches, 0 when there is none
FirstIndex(s, matching) ==
    IF Indices(s, matching) = {} THEN 0
    ELSE CHOOSE i \in Indices(s, matching) : \A j \in Indices(s, matching) : i <= j

\* find(...).toArray()
Filter(s, matching) == SelectSeq(s, LAMBDA d : d \in matching)

RemoveAt(s, i) == [j \in 1..(Len(s) - 1) |-> IF j < i THEN s[j] ELSE s[j + 1]]

\* deleteOne: the first matching document
DeleteOne(s, matching) ==
    IF FirstIndex(s, matching) = 0 THEN s ELSE RemoveAt(s, FirstIndex(s, matching))

\* deleteMany
DeleteMany(s, matching) == SelectSeq(s, LAMBDA d : d \notin matching)

Truthy(id) == id # Null

\* ------------------------------------------------------------------- users
UserDoc(id, googleId, email, role, authType, password) ==
    [_id |-> id, googleId |-> googleId, email |-> email, role |-> role,
     authType |-> authType, password |-> password]

ByGoogleId(g) == FirstIndex(users, {u \in Range(users) : u.googleId = Gid(g)})
ByEmail(e) == FirstIndex(users, {u \in Range(users) : u.email = e})

\* the global-owner sentinel of a Google user
IsSentinelOf(r, gid) == r.userId = gid /\ r.role = "owner" /\ r.isGlobalAdmin

SentinelDoc(gid) ==
    [userId |-> gid, accountId |-> Null, role |-> "owner", isGlobalAdmin |-> TRUE]

RoleDoc(userId, accountId, role) ==
    [userId |-> userId, accountId |-> accountId, role |-> role, isGlobalAdmin |-> FALSE]

\* the owner and editor assignments on accounts: MaxRoles bounds these, a sentinel
\* is bounded by the user it belongs to
RoleCount == Len(SelectSeq(userRoles, LAMBDA r : ~r.isGlobalAdmin))

\* users after the find-or-create of POST /api/auth/google
ApiUpsertUsers(g) ==
    IF ByGoogleId(g) # 0
    THEN [users EXCEPT ![ByGoogleId(g)].role = "admin"]
    ELSE IF ByEmail(GoogleEmail(g)) # 0
    THEN [users EXCEPT ![ByEmail(GoogleEmail(g))].googleId = Gid(g),
                       ![ByEmail(GoogleEmail(g))].role = "admin"]
    ELSE Append(users, UserDoc(Oid("u", nextId), Gid(g), GoogleEmail(g), "admin", "none", "none"))

\* the sentinel step without its lookup: every sign-in inserts a sentinel
EnsureSentinelNoLookup(roles, gid) == Append(roles, SentinelDoc(gid))

\* userRoles after the sentinel step of POST /api/auth/google
EnsureSentinel(roles, gid) ==
    IF FirstIndex(roles, {r \in Range(roles) : IsSentinelOf(r, gid)}) = 0
    THEN Append(roles, SentinelDoc(gid))
    ELSE roles

GoogleToken(u) ==
    [userId |-> u.googleId, userType |-> "google", email |-> u.email, role |-> u.role]

\* whether the sign-in of Google identity g inserts a user document
ApiInsertsUser(g) == ByGoogleId(g) = 0 /\ ByEmail(GoogleEmail(g)) = 0

SignedInUser(us, g) == us[FirstIndex(us, {u \in Range(us) : u.googleId = Gid(g)})]

ApiGoogleFlow(op, g) ==
    /\ Idle
    /\ variant = "api"
    /\ ApiInsertsUser(g) => Len(users) < MaxUsers /\ nextId <= MaxIds
    /\ users' = ApiUpsertUsers(g)
    /\ nextId' = IF ApiInsertsUser(g) THEN nextId + 1 ELSE nextId
    /\ userRoles' = IF SignedInUser(users', g).role = "admin"
                    THEN EnsureSentinel(userRoles, Gid(g)) ELSE userRoles
    /\ tokens' = tokens \cup {GoogleToken(SignedInUser(users', g))}
    /\ last' = [Response(op, GoogleToken(SignedInUser(users', g)), 200)
                   EXCEPT !.target = Gid(g)]
    /\ UNCHANGED <<variant, inflight, accounts, videos>>

\* POST /api/auth/google (authorization code)
ApiGoogleSignIn(g) == ApiGoogleFlow("google", g)

\* POST /api/auth/google/token (ID token, legacy)
ApiGoogleTokenSignIn(g) == ApiGoogleFlow("googleToken", g)

\* POST /auth/google of server/index.js
ServerUpsertUsers(g) ==
    IF ByGoogleId(g) # 0 THEN users
    ELSE Append(users, UserDoc(Oid("u", nextId), Gid(g), GoogleEmail(g), "admin", "none", "none"))

ServerGoogleSignIn(g) ==
    /\ Idle
    /\ variant = "server"
    /\ ByGoogleId(g) = 0 => Len(users) < MaxUsers /\ nextId <= MaxIds
    /\ users' = ServerUpsertUsers(g)
    /\ nextId' = IF ByGoogleId(g) = 0 THEN nextId + 1 ELSE nextId
    /\ tokens' = tokens \cup {GoogleToken(SignedInUser(users', g))}
    /\ last' = [Response("google", GoogleToken(SignedInUser(users', g)), 200)
                   EXCEPT !.target = Gid(g)]
    /\ UNCHANGED <<variant, inflight, accounts, userRoles, videos>>

\* ------------------------------------- Google sign-in, one await at a time
\* The handlers of POST /api/auth/google (api/index.js) and POST /auth/google
\* (server/index.js) step by step: every await of a database call is a point where
\* another request can run.
Goto(s, phase, user, role) ==
    [inflight EXCEPT ![s].phase = phase, ![s].user = user, ![s].role = role]

\* users.findOne({ googleId })
FindByGoogleId(s, g) ==
    /\ variant \in {"api", "server"}
    /\ inflight[s].phase = "none"
    /\ inflight' = IF ByGoogleId(g) # 0
                   THEN [inflight EXCEPT ![s] = [phase |-> IF variant = "api" THEN "found" ELSE "token",
                                                 g |-> g,
                                                 user |-> users[ByGoogleId(g)]._id,
                                                 role |-> users[ByGoogleId(g)].role]]
                   ELSE [inflight EXCEPT ![s] = [phase |-> IF variant = "api" THEN "findEmail" ELSE "insert",
                                                 g |-> g, user |-> Null, role |-> "none"]]
    /\ UNCHANGED <<variant, users, accounts, userRoles, videos, tokens, nextId, last>>

\* users.findOne({ email }) of api/index.js
FindByEmail(s) ==
    /\ inflight[s].phase = "findEmail"
    /\ inflight' = IF ByEmail(GoogleEmail(inflight[s].g)) # 0
                   THEN Goto(s, "link", users[ByEmail(GoogleEmail(inflight[s].g))]._id, "admin")
                   ELSE Goto(s, "insert", Null, "none")
    /\ UNCHANGED <<variant, users, accounts, userRoles, videos, tokens, nextId, last>>

\* users.updateOne({ _id }, { $set: { googleId, role: 'admin' } }) of api/index.js
LinkGoogleId(s) ==
    /\ inflight[s].phase = "link"
    /\ users' = [i \in DOMAIN users |->
                    IF users[i]._id = inflight[s].user
                    THEN [users[i] EXCEPT !.googleId = Gid(inflight[s].g), !.role = "admin"]
                    ELSE users[i]]
    /\ inflight' = Goto(s, "sentinel", inflight[s].user, "admin")
    /\ UNCHANGED <<variant, accounts, userRoles, videos, tokens, nextId, last>>

\* users.insertOne(newUser)
InsertUser(s) ==
    /\ inflight[s].phase = "insert"
    /\ Len(users) < MaxUsers
    /\ nextId <= MaxIds
    /\ users' = Append(users, UserDoc(Oid("u", nextId), Gid(inflight[s].g),
                                      GoogleEmail(inflight[s].g), "admin", "none", "none"))
    /\ nextId' = nextId + 1
    /\ inflight' = Goto(s, IF variant = "api" THEN "sentinel" ELSE "token", Oid("u", nextId), "admin")
    /\ UNCHANGED <<variant, accounts, userRoles, videos, tokens, last>>

\* the user was found by googleId: api/index.js sets its role to admin
EnsureAdminRole(s) ==
    /\ inflight[s].phase = "found"
    /\ users' = [i \in DOMAIN users |->
                    IF users[i]._id = inflight[s].user /\ inflight[s].role # "admin"
                    THEN [users[i] EXCEPT !.role = "admin"]
                    ELSE users[i]]
    /\ inflight' = Goto(s, "sentinel", inflight[s].user, "admin")
    /\ UNCHANGED <<variant, accounts, userRoles, videos, tokens, nextId, last>>

\* userRoles.findOne({ userId: user.googleId, role: 'owner', isGlobalAdmin: true })
FindSentinel(s) ==
    /\ inflight[s].phase = "sentinel"
    /\ inflight' = IF FirstIndex(userRoles, {r \in Range(userRoles) :
                                                 IsSentinelOf(r, Gid(inflight[s].g))}) = 0
                   THEN Goto(s, "insertSentinel", inflight[s].user, inflight[s].role)
                   ELSE Goto(s, "token", inflight[s].user, inflight[s].role)
    /\ UNCHANGED <<variant, users, accounts, userRoles, videos, tokens, nextId, last>>

\* userRoles.insertOne of the sentinel
InsertSentinel(s) ==
    /\ inflight[s].phase = "insertSentinel"
    /\ userRoles' = Append(userRoles, SentinelDoc(Gid(inflight[s].g)))
    /\ inflight' = Goto(s, "token", inflight[s].user, inflight[s].role)
    /\ UNCHANGED <<variant, users, accounts, videos, tokens, nextId, last>>

\* jwt.sign and res.json
InflightToken(s) ==
    [userId |-> Gid(inflight[s].g), userType |-> "google",
     email |-> GoogleEmail(inflight[s].g), role |-> inflight[s].role]

IssueToken(s) ==
    /\ Idle
    /\ inflight[s].phase = "token"
    /\ tokens' = tokens \cup {InflightToken(s)}
    /\ last' = [Response("google", InflightToken(s), 200) EXCEPT !.target = Gid(inflight[s].g)]
    /\ inflight' = [inflight EXCEPT ![s] = NoRequest]
    /\ UNCHANGED <<variant, users, accounts, userRoles, videos, nextId>>

\* POST /api/auth/google of the Vercel template
TemplateUpsertUsers(g) ==
    IF ByGoogleId(g) # 0 THEN users
    ELSE IF ByEmail(GoogleEmail(g)) # 0
    THEN [users EXCEPT ![ByEmail(GoogleEmail(g))].googleId = Gid(g)]
    ELSE Append(users, UserDoc(Oid("u", nextId), Gid(g), GoogleEmail(g), "user", "none", "none"))

\* the template signs the user's _id, and no userType
TemplateToken(u) ==
    [userId |-> ToString(u._id), userType |-> "none", email |-> u.email, role |-> u.role]

TemplateGoogleSignIn(g) ==
    /\ Idle
    /\ variant = "template"
    /\ ApiInsertsUser(g) => Len(users) < MaxUsers /\ nextId <= MaxIds
    /\ users' = TemplateUpsertUsers(g)
    /\ nextId' = IF ApiInsertsUser(g) THEN nextId + 1 ELSE nextId
    /\ tokens' = tokens \cup {TemplateToken(SignedInUser(users', g))}
    /\ last' = [Response("google", TemplateToken(SignedInUser(users', g)), 200)
                   EXCEPT !.target = Gid(g)]
    /\ UNCHANGED <<variant, inflight, accounts, userRoles, videos>>

\* POST /api/auth/email and POST /auth/email
PasswordUser(e) == FirstIndex(users, {u \in Range(users) : u.email = e /\ u.authType = "email"})

EmailToken(u) ==
    [userId |-> ToString(u._id), userType |-> "email", email |-> u.email, role |-> u.role]

\* a sign-in that names the first user for every address: not found is told apart
EmailSignInResponseNotFound(e, p) ==
    IF p = "" THEN [code |-> 400, error |-> "Email and password are required"]
    ELSE IF PasswordUser(e) = 0 THEN [code |-> 404, error |-> "User not found"]
    ELSE IF users[PasswordUser(e)].password # p
    THEN [code |-> 401, error |-> "Invalid email or password"]
    ELSE [code |-> 200, error |-> "none"]

\* status code and error body of the response; server/index.js has one return for
\* the user that is not found and one for the password that differs
EmailSignInResponse(e, p) ==
    IF p = "" THEN [code |-> 400, error |-> "Email and password are required"]
    ELSE IF PasswordUser(e) = 0 THEN [code |-> 401, error |-> "Invalid email or password"]
    ELSE IF users[PasswordUser(e)].password # p
    THEN [code |-> 401, error |-> "Invalid email or password"]
    ELSE [code |-> 200, error |-> "none"]

EmailSignIn(e, p) ==
    /\ Idle
    /\ variant \in {"api", "server"}
    /\ IF EmailSignInResponse(e, p).code # 200
       THEN /\ last' = [Response("email", NoToken, EmailSignInResponse(e, p).code)
                           EXCEPT !.error = EmailSignInResponse(e, p).error]
            /\ UNCHANGED tokens
       ELSE /\ tokens' = tokens \cup {EmailToken(users[PasswordUser(e)])}
            /\ last' = [Response("email", EmailToken(users[PasswordUser(e)]), 200)
                           EXCEPT !.target = users[PasswordUser(e)]._id]
    /\ UNCHANGED <<variant, inflight, users, accounts, userRoles, videos, nextId>>

\* ---------------------------------------------------------- authentication
\* the users query of authenticateToken and of the handlers that look the caller up
CallerIndex(tok) ==
    IF tok.userType = "email"
    THEN FirstIndex(users, {u \in Range(users) : ObjectIdIsValid(tok.userId) /\ u._id = NewObjectId(tok.userId)})
    ELSE FirstIndex(users, {u \in Range(users) : u.googleId = tok.userId})

\* authenticateToken: api/index.js looks the user up, server/index.js trusts the token
Authenticated(tok) ==
    /\ Idle
    /\ tok \in tokens
    /\ variant \in {"api", "server"}
    /\ variant = "api" => CallerIndex(tok) # 0

\* req.user.role: read from the database by api/index.js, from the token by server/index.js
ReqRole(tok) == IF variant = "api" THEN users[CallerIndex(tok)].role ELSE tok.role

\* authenticateToken of api/index.js answers 403 when the token's user is gone
AuthRejected(tok) ==
    /\ Idle
    /\ variant = "api"
    /\ tok \in tokens
    /\ CallerIndex(tok) = 0
    /\ last' = Response("auth", tok, 403)
    /\ UNCHANGED <<variant, inflight, users, accounts, userRoles, videos, tokens, nextId>>

\* ---------------------------------------------------------------- accounts
AccountDoc(id, ownerId, channel) ==
    [_id |-> id, ownerId |-> ownerId, youtubeChannelId |-> channel,
     youtubeAccessToken |-> FALSE, youtubeRefreshToken |-> FALSE,
     youtubeTokenExpiry |-> FALSE, youtubeAuthorizedBy |-> Null]

AccountIndex(id) == FirstIndex(accounts, {a \in Range(accounts) : a._id = id})

\* insertedId: accounts are never deleted
NextAccountId == Oid("a", Len(accounts) + 1)

\* POST /api/accounts and POST /accounts
\* roleInserted is the outcome of the second insert, userRoles.insertOne: where it
\* throws, the catch block answers 500 and the account document stays
CreateAccountOutcome(tok, channel, roleInserted) ==
    /\ Authenticated(tok)
    /\ Len(accounts) < MaxAccounts
    /\ RoleCount < MaxRoles
    /\ accounts' = Append(accounts, AccountDoc(NextAccountId, tok.userId, channel))
    /\ userRoles' = IF roleInserted
                    THEN Append(userRoles, RoleDoc(tok.userId, NextAccountId, "owner"))
                    ELSE userRoles
    /\ last' = [Response("createAccount", tok, IF roleInserted THEN 200 ELSE 500)
                   EXCEPT !.account = NextAccountId]
    /\ UNCHANGED <<variant, inflight, users, videos, tokens, nextId>>

\* the request with a database that answers both inserts
CreateAccount(tok, channel) == CreateAccountOutcome(tok, channel, TRUE)

\* the userRoles documents GET accounts reads for the caller
ApiCallerRoles(tok) ==
    IF tok.userType = "email"
    THEN Filter(userRoles, {r \in Range(userRoles) : r.userId = NewObjectId(tok.userId) \/ r.userId = tok.userId})
    ELSE Filter(userRoles, {r \in Range(userRoles) : r.userId = tok.userId})

ServerCallerRoles(tok) == Filter(userRoles, {r \in Range(userRoles) : r.userId = tok.userId})

CallerRoles(tok) == IF variant = "api" THEN ApiCallerRoles(tok) ELSE ServerCallerRoles(tok)

\* the query without its second clause
OwnedAccountsByOwnerId(userId) == {a \in Range(accounts) : a.ownerId = userId}

\* accounts.find({ $or: [{ ownerId }, { youtubeAuthorizedBy }] })
OwnedAccounts(userId) ==
    {a \in Range(accounts) : a.ownerId = userId \/ a.youtubeAuthorizedBy = userId}

\* accounts.find({ _id: { $in: accountIds } })
AccountsIn(roles) == {a \in Range(accounts) : \E i \in DOMAIN roles : roles[i].accountId = a._id}

\* userRoles.find(ur => ur.accountId.equals(account._id)): the first role that matches;
\* a role before it whose accountId is null or a string has no equals method
TagIndex(roles, a) == FirstIndex(roles, {r \in Range(roles) : OidEquals(r.accountId, a._id)})

TagThrows(roles, a) ==
    \E i \in DOMAIN roles :
        /\ roles[i].accountId[1] # "oid"
        /\ TagIndex(roles, a) = 0 \/ i < TagIndex(roles, a)

TaggedAccounts(roles) ==
    {<<a._id, IF TagIndex(roles, a) = 0 THEN "editor" ELSE roles[TagIndex(roles, a)].role>> :
        a \in AccountsIn(roles)}

AdminAccountList(userId) == {<<a._id, "owner">> : a \in OwnedAccounts(userId)}

\* GET /api/accounts and GET /accounts: <<status code, list>>
AccountsResponse(tok) ==
    IF variant = "server" /\ CallerIndex(tok) = 0 THEN <<404, {}>>
    ELSE IF users[CallerIndex(tok)].role = "admin" THEN <<200, AdminAccountList(tok.userId)>>
    ELSE IF Len(CallerRoles(tok)) = 0 THEN <<200, {}>>
    ELSE IF \E a \in AccountsIn(CallerRoles(tok)) : TagThrows(CallerRoles(tok), a)
    THEN <<500, {}>>
    ELSE <<200, TaggedAccounts(CallerRoles(tok))>>

GetAccounts(tok) ==
    /\ Authenticated(tok)
    /\ last' = [Response("getAccounts", tok, AccountsResponse(tok)[1])
                   EXCEPT !.list = AccountsResponse(tok)[2]]
    /\ UNCHANGED <<variant, inflight, users, accounts, userRoles, videos, tokens, nextId>>

\* ------------------------------------------------------------------ videos
VideoDoc(id, accountId, uploadedBy) ==
    [_id |-> id, accountId |-> accountId, status |-> "pending", uploadedBy |-> uploadedBy,
     reviewedBy |-> Null, reviewedAt |-> "none", adminNotes |-> <<"none", "none">>,
     youtubeUploadStatus |-> "none", youtubeVideoId |-> "none", publishedAt |-> "none",
     publishedBy |-> Null, publishError |-> "none"]

VideoIndex(videoId) ==
    FirstIndex(videos, {v \in Range(videos) : ObjectIdIsValid(videoId) /\ v._id = NewObjectId(videoId)})

\* the account ids a request may name: those of the accounts, as strings, and a string
\* that is no ObjectId
AccountIdInputs == {ToString(a._id) : a \in Range(accounts)} \cup {BadId}
VideoIdInputs == {ToString(v._id) : v \in Range(videos)}

\* insertedId: videos are never deleted
NextVideoId == Oid("v", Len(videos) + 1)

\* POST /api/videos and POST /videos
PostVideo(tok, accountId) ==
    /\ Authenticated(tok)
    /\ Len(videos) < MaxVideos
    /\ videos' = Append(videos, VideoDoc(NextVideoId, accountId, tok.userId))
    /\ last' = [Response("postVideo", tok, 200) EXCEPT !.target = NextVideoId,
                                                          !.account = accountId]
    /\ UNCHANGED <<variant, inflight, users, accounts, userRoles, tokens, nextId>>

\* whether the account of a video has what the review handler needs to publish
\* GET /api/videos and GET /videos. `requested` is the accountIds query parameter
\* split at its commas, empty when the parameter is absent; uploadedBy is the query
\* parameter server/index.js reads, Null when absent.
CallerRoleDocs(tok) == {r \in Range(userRoles) : r.userId = tok.userId}

\* userRoles.map(ur => ur.accountId.toString())
AccessibleAccountIds(tok) == {ToString(r.accountId) : r \in CallerRoleDocs(tok)}

\* accountId.toString() throws for the null accountId of a sentinel
AccessibleThrows(tok) == \E r \in CallerRoleDocs(tok) : r.accountId = Null

\* the users.findOne of server/index.js
VideosCaller(tok) ==
    IF tok.userType = "email"
    THEN FirstIndex(users, {u \in Range(users) : u._id = NewObjectId(tok.userId)})
    ELSE FirstIndex(users, {u \in Range(users) : u.googleId = tok.userId})

GetVideosCode(tok) ==
    IF variant = "server" /\ VideosCaller(tok) = 0 THEN 404
    ELSE IF AccessibleThrows(tok) THEN 500
    ELSE 200

AllowedAccountIds(tok, requested) ==
    IF requested = {} THEN AccessibleAccountIds(tok)
    ELSE requested \cap AccessibleAccountIds(tok)

\* videos.find(filter): the _ids of the documents found
VideosFound(tok, requested, uploadedBy) ==
    {v._id : v \in {w \in Range(videos) :
        /\ w.accountId \in AllowedAccountIds(tok, requested)
        /\ (variant = "server" /\ uploadedBy # Null) => w.uploadedBy = uploadedBy}}

GetVideos(tok, requested, uploadedBy) ==
    /\ Authenticated(tok)
    /\ last' = [Response("getVideos", tok, GetVideosCode(tok)) EXCEPT
                   !.requested = requested,
                   !.target = uploadedBy,
                   !.list = IF GetVideosCode(tok) = 200
                            THEN VideosFound(tok, requested, uploadedBy) ELSE {}]
    /\ UNCHANGED <<variant, inflight, users, accounts, userRoles, videos, tokens, nextId>>

HasPublishTokens(a) == a.youtubeAccessToken /\ a.youtubeRefreshToken

VideoAccountIndex(v) ==
    IF ObjectIdIsValid(v.accountId) THEN AccountIndex(NewObjectId(v.accountId)) ELSE 0

\* whether the approved branch of the server's review handler calls uploadVideoToYouTube
ServerReviewUploads(v, status) ==
    /\ status = "approved"
    /\ VideoAccountIndex(v) # 0
    /\ HasPublishTokens(accounts[VideoAccountIndex(v)])

\* the $set document of PATCH /api/videos/:videoId/status
ApiReviewUpdate(v, tok, status, notes) ==
    [v EXCEPT !.status = status, !.adminNotes = <<notes, "none">>,
              !.reviewedBy = tok.userId, !.reviewedAt = "date"]

\* the $set document of PATCH /videos/:videoId/status; uploadOk is the outcome of
\* uploadVideoToYouTube where it is called
ServerReviewUpdate(v, tok, status, notes, uploadOk) ==
    LET base == ApiReviewUpdate(v, tok, status, notes) IN
    IF status # "approved" THEN base
    ELSE IF ~ObjectIdIsValid(v.accountId)
    THEN [base EXCEPT !.status = "publish_failed", !.youtubeUploadStatus = "failed",
                      !.adminNotes = <<notes, "failed">>]
    ELSE IF ~ServerReviewUploads(v, status)
    THEN [base EXCEPT !.status = "approved", !.youtubeUploadStatus = "pending_oauth",
                      !.adminNotes = <<notes, "pending_oauth">>]
    ELSE IF uploadOk
    THEN [base EXCEPT !.status = "published", !.publishedAt = "date",
                      !.youtubeVideoId = "yt", !.youtubeUploadStatus = "completed",
                      !.adminNotes = <<notes, "uploaded">>]
    ELSE [base EXCEPT !.status = "publish_failed", !.youtubeUploadStatus = "failed",
                      !.adminNotes = <<notes, "failed">>]

ReviewUpdate(v, tok, status, notes, uploadOk) ==
    IF variant = "api" THEN ApiReviewUpdate(v, tok, status, notes)
    ELSE ServerReviewUpdate(v, tok, status, notes, uploadOk)

\* PATCH /api/videos/:videoId/status and PATCH /videos/:videoId/status
PatchStatus(tok, videoId, status, notes, uploadOk) ==
    /\ Authenticated(tok)
    /\ VideoIndex(videoId) # 0
    /\ videos' = [videos EXCEPT ![VideoIndex(videoId)] =
                     ReviewUpdate(videos[VideoIndex(videoId)], tok, status, notes, uploadOk)]
    /\ last' = [Response("review", tok, 200) EXCEPT
                   !.target = NewObjectId(videoId),
                   !.status = status,
                   !.upload = (variant = "server"
                              /\ ServerReviewUploads(videos[VideoIndex(videoId)], status)),
                   !.threw = (/\ variant = "server"
                              /\ ServerReviewUploads(videos[VideoIndex(videoId)], status)
                              /\ ~uploadOk)]
    /\ UNCHANGED <<variant, inflight, users, accounts, userRoles, tokens, nextId>>

\* ----------------------------------------------------------------- publish
\* the userRoles.findOne of the publish handler of api/index.js
ApiPublishRole(tok, v) ==
    FirstIndex(userRoles, {r \in Range(userRoles) :
        /\ \/ r.userId = (IF tok.userType = "email" THEN NewObjectId(tok.userId) ELSE tok.userId)
           \/ r.userId = tok.userId
        /\ r.accountId = NewObjectId(v.accountId)})

\* the userRoles.findOne of the publish handler of server/index.js: the query object
\* has two $or keys, and the second replaces the first
ServerPublishRole(tok, v) ==
    FirstIndex(userRoles, {r \in Range(userRoles) :
        r.accountId = NewObjectId(v.accountId) \/ r.accountId = Null})

PublishRole(tok, v) ==
    IF variant = "api" THEN ApiPublishRole(tok, v) ELSE ServerPublishRole(tok, v)

\* the credentials each publish handler asks of the account
PublishAuthorized(a) ==
    IF variant = "api" THEN a.youtubeAccessToken /\ a.youtubeChannelId
    ELSE a.youtubeAccessToken /\ a.youtubeRefreshToken

\* the status code of POST /api/videos/:videoId/publish, 0 when the handler goes on
\* to the upload
PublishGuard(tok, v) ==
    IF v.status # "approved" THEN 400
    ELSE IF ~ObjectIdIsValid(v.accountId) THEN 500
    ELSE IF VideoAccountIndex(v) = 0 THEN 404
    ELSE IF ~PublishAuthorized(accounts[VideoAccountIndex(v)]) THEN 400
    ELSE IF variant = "server" /\ ~ObjectIdIsValid(tok.userId) THEN 500
    ELSE IF PublishRole(tok, v) = 0 THEN 403
    ELSE IF userRoles[PublishRole(tok, v)].role # "owner" THEN 403
    ELSE 0

\* the error body of the response that ends the handler before the upload
PublishGuardError(tok, v) ==
    IF v.status # "approved" THEN "Video must be approved before publishing"
    ELSE IF ~ObjectIdIsValid(v.accountId) THEN "Failed to publish video to YouTube"
    ELSE IF VideoAccountIndex(v) = 0 THEN "Account not found"
    ELSE IF ~PublishAuthorized(accounts[VideoAccountIndex(v)])
    THEN "YouTube account not authorized. Please authorize YouTube first."
    ELSE IF variant = "server" /\ ~ObjectIdIsValid(tok.userId)
    THEN "Failed to publish video to YouTube"
    ELSE IF PublishRole(tok, v) = 0 \/ userRoles[PublishRole(tok, v)].role # "owner"
    THEN "Access denied. Only account owners can publish videos."
    ELSE "none"

PublishedVideo(v, tok) ==
    [v EXCEPT !.status = "published", !.youtubeVideoId = "yt", !.publishedAt = "date",
              !.publishedBy = tok.userId]

\* the catch block: api/index.js writes 'failed' for whatever was thrown inside the
\* handler, server/index.js writes 'publish_failed' for a failed upload only
PublishFailedVideo(v) ==
    [v EXCEPT !.status = IF variant = "api" THEN "failed" ELSE "publish_failed",
              !.publishError = "error"]

\* the token refresh of api/index.js: `expired` is whether the access token has expired
\* when the request arrives, which the handler reads off the stored expiry date;
\* server/index.js has no refresh
ApiRefreshes(a, expired) == variant = "api" /\ a.youtubeTokenExpiry /\ expired

\* refreshAccessToken throws where no refresh token is stored
RefreshThrows(a, expired) == ApiRefreshes(a, expired) /\ ~a.youtubeRefreshToken

\* whether the handler reaches youtube.videos.insert, which it calls once
PublishUploads(v, tok, expired) ==
    /\ PublishGuard(tok, v) = 0
    /\ ~RefreshThrows(accounts[VideoAccountIndex(v)], expired)

PublishResult(v, tok, uploadOk, expired) ==
    IF PublishGuard(tok, v) = 0
    THEN IF PublishUploads(v, tok, expired) /\ uploadOk
         THEN PublishedVideo(v, tok) ELSE PublishFailedVideo(v)
    ELSE IF PublishGuard(tok, v) = 500 /\ variant = "api" THEN PublishFailedVideo(v)
    ELSE v

PublishCode(v, tok, uploadOk, expired) ==
    IF PublishGuard(tok, v) = 0
    THEN (IF PublishUploads(v, tok, expired) /\ uploadOk THEN 200 ELSE 500)
    ELSE PublishGuard(tok, v)

\* POST /api/videos/:videoId/publish; uploadOk is the outcome of the upload where it
\* is called
Publish(tok, videoId, uploadOk, expired) ==
    /\ Authenticated(tok)
    /\ VideoIndex(videoId) # 0
    /\ videos' = [videos EXCEPT ![VideoIndex(videoId)] =
                     PublishResult(videos[VideoIndex(videoId)], tok, uploadOk, expired)]
    /\ last' = [Response("publish", tok,
                         PublishCode(videos[VideoIndex(videoId)], tok, uploadOk, expired))
                   EXCEPT !.target = NewObjectId(videoId),
                          !.error = PublishGuardError(tok, videos[VideoIndex(videoId)]),
                          !.expired = expired,
                          !.refreshed = (/\ PublishGuard(tok, videos[VideoIndex(videoId)]) = 0
                                         /\ ApiRefreshes(accounts[VideoAccountIndex(videos[VideoIndex(videoId)])],
                                                         expired)),
                          !.upload = PublishUploads(videos[VideoIndex(videoId)], tok, expired),
                          !.threw = (/\ PublishUploads(videos[VideoIndex(videoId)], tok, expired)
                                     /\ ~uploadOk)]
    /\ UNCHANGED <<variant, inflight, users, accounts, userRoles, tokens, nextId>>

\* ------------------------------------------------------ YouTube credentials
\* GET /auth/youtube/callback of server/index.js: no authentication; the state
\* parameter "accountId:userId" names the account and the authorizing user
ServerYoutubeCallback(accountId, userId) ==
    /\ Idle
    /\ variant = "server"
    /\ ObjectIdIsValid(accountId)
    /\ AccountIndex(NewObjectId(accountId)) # 0
    /\ accounts' = [accounts EXCEPT ![AccountIndex(NewObjectId(accountId))] =
                       [@ EXCEPT !.youtubeAccessToken = TRUE, !.youtubeRefreshToken = TRUE,
                                 !.youtubeAuthorizedBy = userId]]
    /\ last' = [Response("youtubeCallback", NoToken, 200) EXCEPT !.account = accountId,
                                                                    !.target = userId]
    /\ UNCHANGED <<variant, inflight, users, userRoles, videos, tokens, nextId>>

\* POST /accounts/:accountId/youtube-token of server/index.js
ServerSaveYoutubeToken(tok, accountId, refresh) ==
    /\ variant = "server"
    /\ Authenticated(tok)
    /\ ObjectIdIsValid(accountId)
    /\ AccountIndex(NewObjectId(accountId)) # 0
    /\ accounts' = [accounts EXCEPT ![AccountIndex(NewObjectId(accountId))] =
                       [@ EXCEPT !.youtubeAccessToken = TRUE, !.youtubeRefreshToken = refresh]]
    /\ last' = [Response("youtubeToken", tok, 200) EXCEPT !.account = accountId]
    /\ UNCHANGED <<variant, inflight, users, userRoles, videos, tokens, nextId>>

\* GET /api/auth/youtube/callback of api/index.js: no authentication; the state
\* parameter is the account id
\* POST /youtube/exchange-code: `exchanged` is whether Google accepts the code, refresh
\* whether its answer carries a refresh token
ServerExchangeCode(tok, accountId, exchanged, refresh) ==
    /\ variant = "server"
    /\ Authenticated(tok)
    /\ ObjectIdIsValid(accountId)
    /\ AccountIndex(NewObjectId(accountId)) # 0
    /\ accounts' = IF exchanged
                   THEN [accounts EXCEPT ![AccountIndex(NewObjectId(accountId))] =
                            [@ EXCEPT !.youtubeAccessToken = TRUE,
                                      !.youtubeRefreshToken = refresh]]
                   ELSE accounts
    /\ last' = [Response("exchangeCode", tok, IF exchanged THEN 200 ELSE 500)
                   EXCEPT !.account = accountId]
    /\ UNCHANGED <<variant, inflight, users, userRoles, videos, tokens, nextId>>

ApiYoutubeCallback(accountId, refresh) ==
    /\ Idle
    /\ variant = "api"
    /\ ObjectIdIsValid(accountId)
    /\ AccountIndex(NewObjectId(accountId)) # 0
    /\ accounts' = [accounts EXCEPT ![AccountIndex(NewObjectId(accountId))] =
                       [@ EXCEPT !.youtubeChannelId = TRUE, !.youtubeAccessToken = TRUE,
                                 !.youtubeRefreshToken = refresh,
                                 !.youtubeTokenExpiry = TRUE]]
    /\ last' = [Response("youtubeCallback", NoToken, 200) EXCEPT !.account = accountId]
    /\ UNCHANGED <<variant, inflight, users, userRoles, videos, tokens, nextId>>

\* ----------------------------------------------------------------- editors
\* String.prototype.toLowerCase on the e-mail addresses of the model
ToLowerCase(e) == IF e = "B@x" THEN "b@x" ELSE e

\* the access check of the editor handlers of api/index.js: the first userRoles
\* document of the caller on the account
ApiAccessRole(tok, accountId) ==
    FirstIndex(userRoles, {r \in Range(userRoles) :
        /\ \/ r.userId = (IF tok.userType = "email" THEN NewObjectId(tok.userId) ELSE tok.userId)
           \/ r.userId = tok.userId
        /\ r.accountId = NewObjectId(accountId)})

ApiIsOwner(tok, accountId) ==
    /\ ApiAccessRole(tok, accountId) # 0
    /\ userRoles[ApiAccessRole(tok, accountId)].role = "owner"

\* the userId the add-editor handler stores: userToAdd._id || userToAdd.googleId in
\* api/index.js, user.googleId || user._id.toString() in server/index.js
EditorUserId(u) ==
    IF variant = "api" THEN u._id
    ELSE IF Truthy(u.googleId) THEN u.googleId ELSE ToString(u._id)

\* the accountId the add-editor handler stores and queries: an ObjectId in
\* api/index.js, the request parameter itself in server/index.js
EditorAccountId(accountId) == IF variant = "api" THEN NewObjectId(accountId) ELSE accountId

ExistingEditorRole(userId, accountId) ==
    FirstIndex(userRoles, {r \in Range(userRoles) : r.userId = userId /\ r.accountId = accountId})

\* the user the add-editor handler finds: api/index.js lowers the address first
UserToAdd(email) == ByEmail(IF variant = "api" THEN ToLowerCase(email) ELSE email)

AddEditorCode(tok, accountId, email) ==
    IF variant = "api" /\ ~ApiIsOwner(tok, accountId) THEN 403
    ELSE IF UserToAdd(email) = 0 THEN 404
    ELSE IF ExistingEditorRole(EditorUserId(users[UserToAdd(email)]),
                               EditorAccountId(accountId)) # 0 THEN 400
    ELSE 200

\* POST /api/accounts/:accountId/editors and POST /accounts/:accountId/editors, while
\* fewer than maxRoles owner and editor assignments exist
AddEditorUpTo(maxRoles, tok, accountId, email) ==
    /\ Authenticated(tok)
    /\ ObjectIdIsValid(accountId)
    /\ AddEditorCode(tok, accountId, email) = 200 => RoleCount < maxRoles
    /\ userRoles' =
         IF AddEditorCode(tok, accountId, email) = 200
         THEN Append(userRoles, RoleDoc(EditorUserId(users[UserToAdd(email)]),
                                        EditorAccountId(accountId), "editor"))
         ELSE userRoles
    /\ last' = [Response("addEditor", tok, AddEditorCode(tok, accountId, email)) EXCEPT
                   !.account = accountId,
                   !.target = IF AddEditorCode(tok, accountId, email) = 200
                              THEN ToString(EditorUserId(users[UserToAdd(email)])) ELSE Null]
    /\ UNCHANGED <<variant, inflight, users, accounts, videos, tokens, nextId>>

AddEditor(tok, accountId, email) == AddEditorUpTo(MaxRoles, tok, accountId, email)

IsEditorRole(r, editorId, accountId) ==
    r.userId = editorId /\ r.accountId = EditorAccountId(accountId) /\ r.role = "editor"

RemoveEditorCode(tok, accountId, editorId) ==
    IF variant = "api" /\ ~ApiIsOwner(tok, accountId) THEN 403
    ELSE IF variant = "api"
            /\ FirstIndex(userRoles, {r \in Range(userRoles) : IsEditorRole(r, editorId, accountId)}) = 0
    THEN 404
    ELSE 200

\* DELETE /api/accounts/:accountId/editors/:editorId and
\* DELETE /accounts/:accountId/editors/:userId
RemoveEditor(tok, accountId, editorId) ==
    /\ Authenticated(tok)
    /\ ObjectIdIsValid(accountId)
    /\ userRoles' =
         IF RemoveEditorCode(tok, accountId, editorId) = 200
         THEN DeleteOne(userRoles, {r \in Range(userRoles) : IsEditorRole(r, editorId, accountId)})
         ELSE userRoles
    /\ last' = [Response("removeEditor", tok, RemoveEditorCode(tok, accountId, editorId))
                   EXCEPT !.account = accountId, !.target = editorId]
    /\ UNCHANGED <<variant, inflight, users, accounts, videos, tokens, nextId>>

\* the userId values of the editor roles of an account
EditorUserIds(accountId) ==
    {r.userId : r \in {q \in Range(userRoles) :
        q.accountId = EditorAccountId(accountId) /\ q.role = "editor"}}

\* the users the list-editors handler joins to those roles
ListedEditors(accountId) ==
    IF variant = "api"
    THEN {u \in Range(users) :
            \/ \E id \in EditorUserIds(accountId) :
                   ObjectIdIsValid(id) /\ u._id = NewObjectId(id)
            \/ \E id \in EditorUserIds(accountId) :
                   ~ObjectIdIsValid(id) /\ u.googleId = id}
    ELSE {u \in Range(users) :
            u._id \in EditorUserIds(accountId) \/ u.googleId \in EditorUserIds(accountId)}

\* GET /api/accounts/:accountId/editors and GET /accounts/:accountId/editors
GetEditors(tok, accountId) ==
    /\ Authenticated(tok)
    /\ ObjectIdIsValid(accountId)
    /\ IF variant = "api" /\ ~ApiIsOwner(tok, accountId)
       THEN last' = [Response("listEditors", tok, 403) EXCEPT !.account = accountId]
       ELSE last' = [Response("listEditors", tok, 200) EXCEPT
                        !.account = accountId,
                        !.list = {<<ToString(u._id), "editor">> : u \in ListedEditors(accountId)}]
    /\ UNCHANGED <<variant, inflight, users, accounts, userRoles, videos, tokens, nextId>>

\* ------------------------------------------------------------------- admin
\* requireAdmin
IsAdmin(tok) == ReqRole(tok) = "admin"

\* accounts.find({ ownerId: req.user.userId })
AdminAccounts(tok) == Filter(accounts, {a \in Range(accounts) : a.ownerId = tok.userId})

\* the editor roles create-editor inserts for the new user
AutoAssigned(tok, newUserId) ==
    [i \in 1..Len(AdminAccounts(tok)) |-> RoleDoc(newUserId, AdminAccounts(tok)[i]._id, "editor")]

CreateEditorCode(tok, email) ==
    IF ~IsAdmin(tok) THEN 403
    ELSE IF ByEmail(email) # 0 THEN 400
    ELSE 200

\* POST /api/admin/create-editor and POST /admin/create-editor
CreateEditor(tok, email, password) ==
    /\ Authenticated(tok)
    /\ CreateEditorCode(tok, email) = 200 =>
          /\ Len(users) < MaxUsers
          /\ nextId <= MaxIds
          /\ RoleCount + Len(AdminAccounts(tok)) <= MaxRoles
    /\ IF CreateEditorCode(tok, email) = 200
       THEN /\ users' = Append(users, UserDoc(Oid("u", nextId), Null, email, "user", "email", password))
            /\ userRoles' = userRoles \o AutoAssigned(tok, Str("u", nextId))
            /\ nextId' = nextId + 1
       ELSE UNCHANGED <<users, userRoles, nextId>>
    /\ last' = [Response("createEditor", tok, CreateEditorCode(tok, email)) EXCEPT
                   !.target = IF CreateEditorCode(tok, email) = 200 THEN Str("u", nextId) ELSE Null]
    /\ UNCHANGED <<variant, inflight, accounts, videos, tokens>>

\* the users document delete-user looks for
UserToDelete(userId) ==
    FirstIndex(users, {u \in Range(users) :
        \/ ObjectIdIsValid(userId) /\ u._id = NewObjectId(userId)
        \/ u.googleId = userId})

\* a role of the user, in either representation of the id
IsRoleOf(r, u) == r.userId = ToString(u._id) \/ r.userId = u._id

\* the editor roles of the user on the accounts the calling admin owns
IsManagedEditorRole(r, u, tok) ==
    /\ IsRoleOf(r, u)
    /\ r.role = "editor"
    /\ \E i \in DOMAIN AdminAccounts(tok) : r.accountId = AdminAccounts(tok)[i]._id

DeleteUserCode(tok, userId) ==
    IF ~IsAdmin(tok) THEN 403
    ELSE IF UserToDelete(userId) = 0 THEN 404
    ELSE IF users[UserToDelete(userId)].role = "admin" THEN 403
    ELSE IF variant = "server" /\ Len(AdminAccounts(tok)) = 0 THEN 403
    ELSE IF variant = "server"
            /\ Indices(userRoles, {r \in Range(userRoles) :
                   IsManagedEditorRole(r, users[UserToDelete(userId)], tok)}) = {}
    THEN 403
    ELSE 200

\* userRoles after delete-user: api/index.js deletes every role of the user,
\* server/index.js the editor roles on the caller's accounts
RolesAfterDelete(tok, u) ==
    IF variant = "api" THEN DeleteMany(userRoles, {r \in Range(userRoles) : IsRoleOf(r, u)})
    ELSE DeleteMany(userRoles, {r \in Range(userRoles) : IsManagedEditorRole(r, u, tok)})

\* users after delete-user: server/index.js keeps a user who has roles left
UsersAfterDelete(tok, userId, roles) ==
    IF variant = "server"
       /\ Indices(roles, {r \in Range(roles) : IsRoleOf(r, users[UserToDelete(userId)])}) # {}
    THEN users
    ELSE RemoveAt(users, UserToDelete(userId))

\* DELETE /api/admin/users/:userId and DELETE /admin/users/:userId
DeleteUser(tok, userId) ==
    /\ Authenticated(tok)
    /\ IF DeleteUserCode(tok, userId) = 200
       THEN /\ userRoles' = RolesAfterDelete(tok, users[UserToDelete(userId)])
            /\ users' = UsersAfterDelete(tok, userId, userRoles')
       ELSE UNCHANGED <<users, userRoles>>
    /\ last' = [Response("deleteUser", tok, DeleteUserCode(tok, userId))
                   EXCEPT !.target = userId]
    /\ UNCHANGED <<variant, inflight, accounts, videos, tokens, nextId>>

\* ---------------------------------------------------------- specification
UserIdInputs ==
    {ToString(u._id) : u \in Range(users)} \cup {t.userId : t \in tokens}

\* the requests of sign-in, accounts, editors and administration
Next ==
    \/ \E g \in GoogleSubs : ApiGoogleSignIn(g)
    \/ \E g \in GoogleSubs : ApiGoogleTokenSignIn(g)
    \/ \E g \in GoogleSubs : ServerGoogleSignIn(g)
    \/ \E g \in GoogleSubs : TemplateGoogleSignIn(g)
    \/ \E e \in Emails, p \in PasswordInputs : EmailSignIn(e, p)
    \/ \E tok \in tokens : AuthRejected(tok)
    \/ \E tok \in tokens : CreateAccount(tok, FALSE)
    \/ \E tok \in tokens : GetAccounts(tok)
    \/ \E a \in AccountIdInputs, tok \in tokens : ServerYoutubeCallback(a, tok.userId)
    \/ \E tok \in tokens, a \in AccountIdInputs, e \in EmailInputs : AddEditor(tok, a, e)
    \/ \E tok \in tokens, a \in AccountIdInputs, u \in UserIdInputs : RemoveEditor(tok, a, u)
    \/ \E tok \in tokens, a \in AccountIdInputs : GetEditors(tok, a)
    \/ \E tok \in tokens, e \in EmailInputs : CreateEditor(tok, e, "pw")
    \/ \E tok \in tokens, u \in UserIdInputs : DeleteUser(tok, u)
    \/ Deliver

Spec == Init /\ [][Next]_vars

\* the requests of the review workflow, with those that set it up: one Google
\* administrator, one password user, one account
ReviewNext ==
    \/ ApiGoogleSignIn(1)
    \/ ServerGoogleSignIn(1)
    \/ EmailSignIn("b@x", "pw")
    \/ \E tok \in tokens, channel \in BOOLEAN : CreateAccount(tok, channel)
    \/ \E tok \in tokens : CreateEditor(tok, "b@x", "pw")
    \/ \E tok \in tokens, a \in AccountIdInputs, r \in BOOLEAN : ServerSaveYoutubeToken(tok, a, r)
    \/ \E tok \in tokens, a \in AccountIdInputs, exchanged \in BOOLEAN, r \in BOOLEAN :
           ServerExchangeCode(tok, a, exchanged, r)
    \/ \E a \in AccountIdInputs, r \in BOOLEAN : ApiYoutubeCallback(a, r)
    \/ \E tok \in tokens, a \in AccountIdInputs : PostVideo(tok, a)
    \/ \E tok \in tokens, v \in VideoIdInputs, s \in StatusInputs, n \in NoteInputs,
          ok \in BOOLEAN : PatchStatus(tok, v, s, n, ok)
    \/ \E tok \in tokens, v \in VideoIdInputs, ok \in BOOLEAN, expired \in BOOLEAN :
           Publish(tok, v, ok, expired)
    \/ \E tok \in tokens, requested \in SUBSET AccountIdInputs,
          uploadedBy \in {Null} \cup {t.userId : t \in tokens} :
           GetVideos(tok, requested, uploadedBy)
    \/ Deliver

ReviewInit == Init /\ variant \in {"api", "server"}

SpecReview == ReviewInit /\ [][ReviewNext]_vars

\* Concurrent Google sign-ins, with the create-editor requests of the admins they
\* sign in.
RaceNext ==
    \/ \E s \in Slots, g \in GoogleSubs : FindByGoogleId(s, g)
    \/ \E s \in Slots : FindByEmail(s)
    \/ \E s \in Slots : LinkGoogleId(s)
    \/ \E s \in Slots : InsertUser(s)
    \/ \E s \in Slots : EnsureAdminRole(s)
    \/ \E s \in Slots : FindSentinel(s)
    \/ \E s \in Slots : InsertSentinel(s)
    \/ \E s \in Slots : IssueToken(s)
    \/ \E tok \in tokens : CreateEditor(tok, "b@x", "pw")
    \/ Deliver

RaceInit == Init /\ variant \in {"api", "server"}

SpecRace == RaceInit /\ [][RaceNext]_vars

\* Managing the editors of one account: its owner signs in with Google, creates the
\* account (the database may fail the second insert) and an editor user, adds and
\* removes editors, and deletes the editor user.
EditorsNext ==
    \/ ApiGoogleSignIn(1)
    \/ ServerGoogleSignIn(1)
    \/ \E tok \in tokens, roleInserted \in BOOLEAN : CreateAccountOutcome(tok, FALSE, roleInserted)
    \/ \E tok \in tokens : CreateEditor(tok, "b@x", "pw")
    \/ \E p \in Passwords : EmailSignIn("b@x", p)
    \/ \E tok \in tokens, a \in AccountIdInputs \ {BadId}, e \in EmailInputs :
           AddEditorUpTo(MaxEditorRoles, tok, a, e)
    \/ \E tok \in tokens, a \in AccountIdInputs \ {BadId}, u \in UserIdInputs :
           RemoveEditor(tok, a, u)
    \/ \E tok \in tokens, a \in AccountIdInputs \ {BadId} : GetEditors(tok, a)
    \/ \E tok \in tokens, u \in UserIdInputs : DeleteUser(tok, u)
    \/ \E tok \in tokens : AuthRejected(tok)
    \/ \E tok \in tokens, a \in AccountIdInputs \ {BadId} : PostVideo(tok, a)
    \/ Deliver

SpecEditors == ReviewInit /\ [][EditorsNext]_vars

\* ------------------------------------------------------- claim vocabulary
\* a userRoles document names the caller: by the token's userId, or by the ObjectId
\* that userId is the string of
IsRoleOfCaller(r, tok) ==
    \/ r.userId = tok.userId
    \/ ObjectIdIsValid(tok.userId) /\ r.userId = NewObjectId(tok.userId)

\* an account id, in either representation, names the account
RefersTo(id, a) == ObjectIdIsValid(id) /\ NewObjectId(id) = a._id

\* the caller holds an owner assignment on the account an id names
HoldsOwner(tok, accountId) ==
    \E r \in Range(userRoles) :
        /\ IsRoleOfCaller(r, tok)
        /\ r.role = "owner"
        /\ ~r.isGlobalAdmin
        /\ ObjectIdIsValid(accountId)
        /\ ObjectIdIsValid(r.accountId)
        /\ NewObjectId(r.accountId) = NewObjectId(accountId)

\* the caller holds a global-owner sentinel
HoldsSentinel(tok) ==
    \E r \in Range(userRoles) :
        IsRoleOfCaller(r, tok) /\ r.role = "owner" /\ r.accountId = Null

\* the video a review or publish response is about, before the request
Reviewed == videos[VideoIndex(last'.target)]

\* ---------------------------------------------------------------------- C1
StatusTransitions ==
    {<<"pending", "approved">>, <<"pending", "rejected">>, <<"approved", "published">>,
     <<"approved", "publish_failed">>, <<"publish_failed", "approved">>}

\* C1: a video's status changes only along pending->approved, pending->rejected,
\* approved->published, approved->publish_failed and publish_failed->approved, under
\* any sequence of review and publish requests; a rejected or published video never
\* changes status again.
C1_StatusTransitions ==
    [][\A i \in DOMAIN videos :
          videos'[i].status # videos[i].status =>
              <<videos[i].status, videos'[i].status>> \in StatusTransitions]_vars

\* ---------------------------------------------------------------------- C2
\* C2: a review request from an authenticated caller who holds neither an owner
\* assignment on the video's account nor a global-owner sentinel is answered 403 and
\* leaves the video (status, reviewedBy, reviewedAt, adminNotes) unchanged.
C2_ReviewAccessDenied ==
    [][(/\ last'.op = "review"
        /\ ~HoldsOwner(last'.tok, Reviewed.accountId)
        /\ ~HoldsSentinel(last'.tok))
       => (last'.code = 403 /\ videos' = videos)]_vars

\* ---------------------------------------------------------------------- C3
\* who may publish a video: an owner of its account and, in server/index.js, the
\* holder of a global-owner sentinel
CanPublish(tok, v) ==
    HoldsOwner(tok, v.accountId) \/ (variant = "server" /\ HoldsSentinel(tok))

\* the video is approved and its account holds the credentials the handler asks for
Publishable(v) ==
    /\ v.status = "approved"
    /\ VideoAccountIndex(v) # 0
    /\ PublishAuthorized(accounts[VideoAccountIndex(v)])

\* C3: a publish request on an approved video calls the upload or modifies the video
\* only if the caller holds an owner assignment on the video's account (or, in
\* server/index.js, a sentinel); every other caller gets 403 and the video is
\* unchanged; an owner who signed in with Google is allowed.
C3_PublishOnlyByOwner ==
    [][(last'.op = "publish" /\ Reviewed.status = "approved") =>
          /\ (last'.upload \/ videos' # videos) => CanPublish(last'.tok, Reviewed)
          /\ (Publishable(Reviewed) /\ ~CanPublish(last'.tok, Reviewed))
                => (last'.code = 403 /\ videos' = videos)
          /\ (/\ Publishable(Reviewed)
              /\ HoldsOwner(last'.tok, Reviewed.accountId)
              /\ last'.tok.userType = "google") => last'.upload]_vars

\* ---------------------------------------------------------------------- C4
\* C4: add-editor, remove-editor and list-editors on an account succeed only for a
\* caller who holds an owner assignment on that account; every other authenticated
\* caller is denied and userRoles is unchanged.
C4_EditorsOnlyByOwner ==
    [][(/\ last'.op \in {"addEditor", "removeEditor", "listEditors"}
        /\ ~HoldsOwner(last'.tok, last'.account))
       => (last'.code = 403 /\ userRoles' = userRoles)]_vars

\* ---------------------------------------------------------------------- C5
\* the caller of the request answered last is a user whose stored role is admin
CallerIsAdmin ==
    /\ CallerIndex(last.tok) # 0
    /\ users[CallerIndex(last.tok)].role = "admin"

\* the caller holds an editor assignment on the account and nothing else ties them
\* to it
OnlyEditorOf(tok, a) ==
    /\ \E r \in Range(userRoles) :
          IsRoleOfCaller(r, tok) /\ r.role = "editor" /\ RefersTo(r.accountId, a)
    /\ ~HoldsOwner(tok, a._id)
    /\ a.ownerId # tok.userId
    /\ a.youtubeAuthorizedBy # tok.userId

AssignmentsOf(tok) ==
    {<<a._id, r.role>> : <<a, r>> \in
        {p \in Range(accounts) \X Range(userRoles) :
            IsRoleOfCaller(p[2], tok) /\ RefersTo(p[2].accountId, p[1])}}

\* C6: for a caller whose role is not admin, GET accounts returns exactly the
\* accounts for which an assignment of that caller exists, one row per account, each
\* tagged with the role of an assignment of the caller on it, however the assignment
\* was created.
C6_MemberAccountList ==
    (/\ last.op = "getAccounts"
     /\ CallerIndex(last.tok) # 0
     /\ users[CallerIndex(last.tok)].role # "admin")
    => /\ last.code = 200
       /\ {row[1] : row \in last.list} = {p[1] : p \in AssignmentsOf(last.tok)}
       /\ last.list \subseteq AssignmentsOf(last.tok)
       /\ \A r1, r2 \in last.list : r1[1] = r2[1] => r1 = r2

\* ---------------------------------------------------------------------- C7
\* C7: after every successful Google sign-in the stored role of the signed-in user
\* and the role in the issued token are admin, whether the user was created, found
\* by googleId or found by email and merged.
C7_GoogleSignInIsAdmin ==
    (last.op \in {"google", "googleToken"} /\ last.code = 200) =>
        /\ last.tok.role = "admin"
        /\ \A u \in Range(users) : u.googleId = last.target => u.role = "admin"

\* ---------------------------------------------------------------------- C8
\* C8: a password user, created by create-editor with role user, is never promoted:
\* whatever happens, a Google sign-in with the same email included, a password
\* sign-in of that user resolves the role set at creation.
C8_PasswordUserKeepsRole ==
    (last.op = "email" /\ last.code = 200) => last.tok.role = "user"

\* ---------------------------------------------------------------------- C9
\* the sentinels of a Google user
Sentinels(g) ==
    {i \in DOMAIN userRoles :
        /\ userRoles[i].userId = Gid(g)
        /\ userRoles[i].role = "owner"
        /\ userRoles[i].accountId = Null
        /\ userRoles[i].isGlobalAdmin}

\* the Google user has completed a sign-in
HasSignedIn(g) == \E t \in tokens : t.userType = "google" /\ t.userId = Gid(g)

\* C9: after any number of completed, sequential Google sign-ins of api/index.js,
\* through either endpoint, exactly one sentinel of the user exists.
C9_OneSentinel ==
    variant = "api" =>
        \A g \in GoogleSubs :
            Cardinality(Sentinels(g)) = (IF HasSignedIn(g) THEN 1 ELSE 0)

\* a sign-in through the token endpoint of a user who had signed in before (they
\* own an account by now)
C9_Witness ==
    /\ variant = "api"
    /\ last.op = "googleToken"
    /\ \E g \in GoogleSubs :
          /\ last.target = Gid(g)
          /\ \E a \in Range(accounts) : a.ownerId = Gid(g)
          /\ Cardinality(Sentinels(g)) = 1

\* --------------------------------------------------------------------- C10
\* the account of the video holds no publish credentials
NoCredentials(v) ==
    /\ VideoAccountIndex(v) # 0
    /\ ~accounts[VideoAccountIndex(v)].youtubeAccessToken
    /\ ~accounts[VideoAccountIndex(v)].youtubeRefreshToken

\* C10: approving a video whose account has no stored publish credentials leaves it
\* approved with youtubeUploadStatus = pending_oauth, records the reviewer, the time
\* and the notes, and does not call the upload.
C10_ApprovePendingOauth ==
    [][(last'.op = "review" /\ last'.status = "approved" /\ NoCredentials(Reviewed)) =>
          /\ videos'[VideoIndex(last'.target)].status = "approved"
          /\ videos'[VideoIndex(last'.target)].youtubeUploadStatus = "pending_oauth"
          /\ videos'[VideoIndex(last'.target)].reviewedBy = last'.tok.userId
          /\ videos'[VideoIndex(last'.target)].reviewedAt = "date"
          /\ videos'[VideoIndex(last'.target)].adminNotes[1] \in NoteInputs
          /\ ~last'.upload]_vars

\* --------------------------------------------------------------------- C11
\* the video after the request answered last
ReviewedAfter == videos'[VideoIndex(last'.target)]

\* the reason of a failure is on the video: publishError, or the failure text the
\* review handler appends to adminNotes
HasFailureReason(v) == v.publishError # "none" \/ v.adminNotes[2] = "failed"

\* C11: when a video is approved or published with stored credentials and the upload
\* throws, its status becomes publish_failed and the reason is stored on it; it stays
\* re-approvable: a later approve request invokes the upload again.
C11_PublishFailure ==
    [][/\ (last'.op \in {"review", "publish"} /\ last'.threw) =>
              (ReviewedAfter.status = "publish_failed" /\ HasFailureReason(ReviewedAfter))
       /\ (/\ last'.op = "review"
           /\ last'.status = "approved"
           /\ HasFailureReason(Reviewed)
           /\ Publishable([Reviewed EXCEPT !.status = "approved"])) => last'.upload]_vars

\* --------------------------------------------------------------------- C12
\* C12: approval triggers publication: when a reviewer approves a pending video whose
\* account has stored access and refresh tokens and the upload does not throw, that same
\* review request leaves the video published with the YouTube video id and publishedAt
\* set.
C12_ApprovalPublishes ==
    [][(/\ last'.op = "review"
        /\ last'.code = 200
        /\ last'.status = "approved"
        /\ Reviewed.status = "pending"
        /\ VideoAccountIndex(Reviewed) # 0
        /\ HasPublishTokens(accounts[VideoAccountIndex(Reviewed)])
        /\ ~last'.threw) =>
            /\ ReviewedAfter.status = "published"
            /\ ReviewedAfter.youtubeVideoId # "none"
            /\ ReviewedAfter.publishedAt # "none"]_vars

\* --------------------------------------------------------------------- C13
\* the caller holds an editor or owner assignment on the account an id names
HoldsMemberRole(tok, accountId) ==
    \E r \in Range(userRoles) :
        /\ IsRoleOfCaller(r, tok)
        /\ r.role \in {"owner", "editor"}
        /\ ~r.isGlobalAdmin
        /\ ObjectIdIsValid(accountId)
        /\ ObjectIdIsValid(r.accountId)
        /\ NewObjectId(r.accountId) = NewObjectId(accountId)

\* C13: POST videos inserts a video only when the caller holds an editor or owner
\* assignment on the target account and that account exists; every inserted video has
\* status pending.
C13_PostVideoNeedsRole ==
    [][(last'.op = "postVideo" /\ Len(videos') > Len(videos)) =>
           /\ \E a \in Range(accounts) : RefersTo(last'.account, a)
           /\ HoldsMemberRole(last'.tok, last'.account)
           /\ videos'[Len(videos')].status = "pending"]_vars

\* --------------------------------------------------------------------- C14
\* C14: in every reachable state no two user records share an email.
C14_UniqueEmail ==
    \A i, j \in 1..Len(users) : users[i].email = users[j].email => i = j

\* --------------------------------------------------------------------- C15
\* the user record a userRoles document refers to: by its _id, as an ObjectId or as
\* its string, or by its googleId
RoleUser(r) ==
    FirstIndex(users, {u \in Range(users) :
        \/ ToString(r.userId) = ToString(u._id)
        \/ Truthy(u.googleId) /\ r.userId = u.googleId})

SameEditorPair(r1, r2) ==
    /\ r1.role = "editor"
    /\ r2.role = "editor"
    /\ RoleUser(r1) # 0
    /\ RoleUser(r1) = RoleUser(r2)
    /\ ToString(r1.accountId) = ToString(r2.accountId)

\* C15: in every reachable state there is at most one editor RoleAssignment per
\* (user, account) pair.
C15_OneEditorRolePerPair ==
    \A i, j \in 1..Len(userRoles) : SameEditorPair(userRoles[i], userRoles[j]) => i = j

\* --------------------------------------------------------------------- C16
\* the owner assignments of an account that name its ownerId
OwnerRolesOf(a) ==
    {i \in DOMAIN userRoles :
        /\ userRoles[i].role = "owner"
        /\ ~userRoles[i].isGlobalAdmin
        /\ RefersTo(userRoles[i].accountId, a)
        /\ userRoles[i].userId = a.ownerId}

\* C16: in every reachable state, including after a failure between the two inserts of
\* create-account, each account has exactly one owner RoleAssignment whose userId
\* equals the account's ownerId.
C16_AccountHasOwnerRole ==
    \A a \in Range(accounts) : Cardinality(OwnerRolesOf(a)) = 1

\* --------------------------------------------------------------------- C17
\* the user a delete-user request names, before the request
Deleted == users[UserToDelete(last'.target)]

\* a userRoles document keyed by the _id of a user document, as a string or ObjectId
KeyedByUserId(r) == r.userId[1] \in {"oid", "str"} /\ r.userId[2] = "u"

\* no assignment is keyed by the _id of a user that is not there: the _ids are
\* never reused, so such a user is one that delete-user removed
NoRoleOfRemovedUser ==
    \A r \in Range(userRoles) :
        KeyedByUserId(r) => \E u \in Range(users) : u._id = NewObjectId(r.userId)

\* C17: after delete-user reports success for user U, the user record U no longer
\* exists and no RoleAssignment keyed by U's id (string or ObjectId) remains; in no
\* reachable state does a RoleAssignment refer to a user that delete-user has removed.
C17_DeleteUserCascades ==
    [][/\ (last'.op = "deleteUser" /\ last'.code = 200) =>
              /\ \A u \in Range(users') : u._id # Deleted._id
              /\ \A r \in Range(userRoles') : ~IsRoleOf(r, Deleted)
       /\ NoRoleOfRemovedUser']_vars

\* --------------------------------------------------------------------- C18
\* no password user has the address
UnknownEmail(e) == PasswordUser(e) = 0

\* a password user has the address and its stored password differs from p
WrongPassword(e, p) == PasswordUser(e) # 0 /\ users[PasswordUser(e)].password # p

\* C18: password sign-in does not reveal why it failed: the response (status code and
\* body) when no password user has the given email is identical to the response when
\* the user exists but the supplied password differs from the stored one. The two
\* requests are compared on the users collection every answered sign-in has run on.
C18_SignInFailureUniform ==
    last.op = "email" =>
        \A e2 \in EmailInputs : ~UnknownEmail(e2) =>
            \A p \in PasswordInputs : WrongPassword(e2, p) =>
                \A e1 \in EmailInputs : UnknownEmail(e1) =>
                    EmailSignInResponse(e1, p) = EmailSignInResponse(e2, p)

\* a sign-in has just failed while one address is unknown and another has a password
\* user with another password
C18_Witness ==
    /\ last.op = "email"
    /\ last.code = 401
    /\ last.error = "Invalid email or password"
    /\ \E e1, e2 \in EmailInputs, p \in Passwords : UnknownEmail(e1) /\ WrongPassword(e2, p)

\* --------------------------------------------------------------------- C19
\* the publish request answered last passed every check before the upload
ReachedPublication == last'.op = "publish" /\ PublishGuard(last'.tok, Reviewed) = 0

\* C19: during publication an expired access token triggers a refresh with the stored
\* refresh token, followed by one upload; an upload failure that is not a token expiry
\* parks the video in publish_failed.
C19_RefreshThenUpload ==
    [][/\ (/\ ReachedPublication
           /\ last'.expired
           /\ accounts[VideoAccountIndex(Reviewed)].youtubeRefreshToken) =>
              (last'.refreshed /\ last'.upload)
       /\ (ReachedPublication /\ ~last'.expired /\ last'.threw) =>
              ReviewedAfter.status = "publish_failed"]_vars

\* --------------------------------------------------------------------- C20
VideoStatuses == {"pending", "approved", "rejected", "published", "publish_failed"}

\* C20: in every reachable state each video's status is one of pending, approved,
\* rejected, published, publish_failed, whatever status a review request carries and
\* whatever error path a publish request takes.
C20_StatusInEnum == \A v \in Range(videos) : v.status \in VideoStatuses

\* --------------------------------------------------------------------- C21
\* the user record a token was issued for: by its googleId or by the string of its _id
TokenUser(t) ==
    FirstIndex(users, {u \in Range(users) :
        \/ Truthy(u.googleId) /\ t.userId = u.googleId
        \/ t.userId = ToString(u._id)})

\* the user record an account's ownerId names
OwnerUser(a) ==
    FirstIndex(users, {u \in Range(users) :
        \/ Truthy(u.googleId) /\ a.ownerId = u.googleId
        \/ ToString(a.ownerId) = ToString(u._id)})

\* C21: each user record has a single canonical identifier: every token issued for the
\* same user record carries the same userId, and every RoleAssignment and account
\* ownerId written for that user stores that same value in the same representation.
C21_CanonicalUserId ==
    \A t \in tokens : TokenUser(t) # 0 =>
        /\ \A t2 \in tokens : TokenUser(t2) = TokenUser(t) => t2.userId = t.userId
        /\ \A r \in Range(userRoles) : RoleUser(r) = TokenUser(t) => r.userId = t.userId
        /\ \A a \in Range(accounts) : OwnerUser(a) = TokenUser(t) => a.ownerId = t.userId

\* --------------------------------------------------------------------- C22
\* the publish request answered last ended before the upload
PublishRejected == last'.op = "publish" /\ PublishGuard(last'.tok, Reviewed) # 0

\* C22: a publish request for a video that is not approved is rejected with 'Video must
\* be approved before publishing', calls no upload and modifies no video; a publish
\* request rejected because the video or account is missing, the account has no
\* credentials or the caller is denied leaves videos, accounts and userRoles unchanged.
C22_RejectedPublishChangesNothing ==
    [][/\ (last'.op = "publish" /\ Reviewed.status # "approved") =>
              /\ last'.code = 400
              /\ last'.error = "Video must be approved before publishing"
              /\ ~last'.upload
              /\ videos' = videos
       /\ PublishRejected =>
              (~last'.upload /\ UNCHANGED <<videos, accounts, userRoles>>)]_vars

\* --------------------------------------------------------------------- C23
\* the account ids, as strings, of the accounts the caller holds an assignment on
AssignedAccountIds(tok) ==
    {ToString(r.accountId) : r \in {q \in Range(userRoles) :
        IsRoleOfCaller(q, tok) /\ ~q.isGlobalAdmin /\ q.accountId # Null}}

\* C23: GET videos never returns a video whose accountId is not among the accounts on
\* which the caller holds a RoleAssignment, whatever accountIds or uploadedBy the caller
\* supplies; requested ids the caller has no assignment on are dropped, and if none
\* remain the result is the empty list.
C23_VideosOfOwnAccounts ==
    last.op = "getVideos" =>
        /\ \A v \in Range(videos) : v._id \in last.list =>
               /\ v.accountId \in AssignedAccountIds(last.tok)
               /\ last.requested # {} => v.accountId \in last.requested
        /\ (last.requested # {} /\ last.requested \cap AssignedAccountIds(last.tok) = {}) =>
               (last.code = 200 /\ last.list = {})

\* --------------------------------------------------------------------- C24
\* the accounts the caller created
CreatedBy(tok) == {a \in Range(accounts) : OwnerUser(a) # 0 /\ OwnerUser(a) = TokenUser(tok)}

\* the videos posted to an account
VideosOf(a) == {v \in Range(videos) : RefersTo(v.accountId, a)}

\* C24: for an owner who signed in with Google, holds the sentinel RoleAssignment with
\* accountId = null and created an account that has videos, GET videos succeeds and
\* returns the videos of that account, not an error or an empty list.
C24_SentinelOwnerSeesVideos ==
    (/\ last.op = "getVideos"
     /\ last.tok.userType = "google"
     /\ HoldsSentinel(last.tok)
     /\ last.target = Null) =>
        \A a \in CreatedBy(last.tok) :
            (VideosOf(a) # {} /\ (last.requested = {} \/ ToString(a._id) \in last.requested)) =>
                /\ last.code = 200
                /\ \A v \in VideosOf(a) : v._id \in last.list

\* --------------------------------------------------------------------- C25
\* an upload of the video has succeeded: only a successful upload stores the YouTube id
Uploaded(v) == v.youtubeVideoId # "none"

\* C25: each video is uploaded to YouTube at most once over its lifetime: no approve
\* request (PATCH status) and no publish request invokes the upload for a video of
\* which one upload has already succeeded.
C25_UploadedAtMostOnce ==
    [][(last'.op \in {"review", "publish"} /\ last'.upload) => ~Uploaded(Reviewed)]_vars

\* --------------------------------------------------------------------- C26
\* C26: when Google sign-in requests for the same user interleave (each doing its find
\* before the other's insert), at most one global-owner sentinel RoleAssignment exists
\* for that user in every reachable state.
C26_AtMostOneSentinel ==
    \A g \in GoogleSubs : Cardinality(Sentinels(g)) <= 1

\* --------------------------------------------------------------------- C27
\* the user record the token was issued to is gone: tokens are issued to existing users
\* only and users are removed by delete-user only
IssuedToDeletedUser(t) == t \in tokens /\ TokenUser(t) = 0

\* the response answers a request that went through authenticateToken
BearsToken == last'.op \notin {"none", "email", "google", "googleToken"}

\* C27: after a user has been deleted by admin delete-user, every later authenticated
\* request bearing a token issued to that user before the deletion is rejected and
\* changes no state.
C27_DeletedUserRejected ==
    [][(BearsToken /\ IssuedToDeletedUser(last'.tok)) =>
           /\ last'.code >= 400
           /\ UNCHANGED <<users, accounts, userRoles, videos>>]_vars

\* --------------------------------------------------------------------- C28
\* the stored YouTube credentials of an account
Credentials(a) == <<a.youtubeAccessToken, a.youtubeRefreshToken, a.youtubeAuthorizedBy>>

\* the request answered last came from a signed-in admin or from a caller holding an
\* owner RoleAssignment on the account
AdminOrOwnerOf(a) ==
    /\ last'.tok \in tokens
    /\ \/ (CallerIndex(last'.tok) # 0 /\ users[CallerIndex(last'.tok)].role = "admin")
       \/ HoldsOwner(last'.tok, a._id)

\* C28: an account's stored YouTube credentials change only through a flow started by a
\* caller who is admin or holds an owner RoleAssignment on that account: save-token,
\* exchange-code and the OAuth callback write credentials for no other caller and for
\* no unauthenticated request with a chosen state parameter.
C28_CredentialsByOwnerOrAdmin ==
    [][\A i \in DOMAIN accounts :
           (i \in DOMAIN accounts' /\ Credentials(accounts'[i]) # Credentials(accounts[i])) =>
               AdminOrOwnerOf(accounts[i])]_vars

\* --------------------------------------------------------------------- C29
\* the caller created the account an id names
CreatedByCaller(id, tok) ==
    \E a \in Range(accounts) :
        a._id = id /\ OwnerUser(a) # 0 /\ OwnerUser(a) = TokenUser(tok)

\* C29: GET accounts never shows a user an account they did not create with userRole
\* owner, whatever operations the user performed before, the YouTube OAuth callback
\* for that account included.
C29_OwnerOnlyIfCreator ==
    last.op = "getAccounts" =>
        \A e \in last.list : e[2] = "owner" => CreatedByCaller(e[1], last.tok)

\* --------------------------------------------------------------------- C30
\* the id the add-editor response and list-editors report for a user
ReportedEditorId(u) == ToString(u._id)

\* the RoleAssignment add-editor appends for the user and the account
AddedRole(u, accountId) == RoleDoc(EditorUserId(u), EditorAccountId(accountId), "editor")

\* the newest RoleAssignment is the one add-editor wrote for the user on the account
LastAdded(u, accountId) ==
    /\ Len(userRoles) > 0
    /\ userRoles[Len(userRoles)] = AddedRole(u, accountId)

\* C30: add-editor followed by remove-editor is a round trip: when an owner has added
\* user U to an account and then calls remove-editor with the id list-editors (or the
\* add-editor response) reports for U, the request reports success and removes the
\* added RoleAssignment, so that userRoles equals what it was before the add and U holds
\* no editor RoleAssignment on the account.
C30_AddRemoveRoundTrip ==
    [][\A u \in Range(users) :
           (/\ last'.op = "removeEditor"
            /\ HoldsOwner(last'.tok, last'.account)
            /\ LastAdded(u, last'.account)
            /\ last'.target = ReportedEditorId(u)) =>
               /\ last'.code = 200
               /\ userRoles' = SubSeq(userRoles, 1, Len(userRoles) - 1)]_vars

====
